---- MODULE Spec2Model ----
(***************************************************************************)
(* The rag-search request pipeline: handlers/rag_search.py (rag_search,    *)
(* search, fetch_details, filter_content), services/web.py (the concurrent *)
(* page fetch) and services/document/store.py (indexing into the           *)
(* similarity store).                                                      *)
(*                                                                         *)
(* Python strings are TLA+ strings.  An Optional value is a sequence of    *)
(* length 0 (None) or 1.  A result is a Python dict: a function whose      *)
(* DOMAIN is its set of keys, so `"content" in result` is                  *)
(* "content" \in DOMAIN result.                                            *)
(***************************************************************************)
EXTENDS Integers, Sequences, FiniteSets, TLC

VARIABLES
    authApiKey,      \* os.getenv("AUTH_API_KEY"): None or a string
    authorization,   \* the Authorization header: None or a string
    req,             \* the RagSearchReq body
    pc,              \* position of the handler
    search_results,  \* rag_search's local list of result dicts
    resp,            \* the response returned by the handler
    params,          \* the parameters search() handed to the provider
    urls,            \* fetch_details: the URLs handed to batch_fetch_urls
    tasks,           \* batch_fetch_urls: one fetch_markdown task per URL
    store,           \* the external similarity store (chunks, accumulative)
    indexed,         \* the results filter_content handed to store_results
    match_results,   \* what query_results returned to filter_content
    calls,           \* history: the stages invoked, in order
    raw,             \* history: what the search provider returned or raised
    stageIn,         \* history: the list the running stage received
    trace,           \* history: one record per finished optional stage
    peer             \* a second request in flight on the same server

vars == <<authApiKey, authorization, req, pc, search_results, resp, params,
          urls, tasks, store, indexed, match_results, calls, raw, stageIn, trace,
          peer>>

-----------------------------------------------------------------------------
(* Bounds of the model *)

MaxResults == 2      \* longest list the search provider returns
MaxScore == 1        \* scores are 0..MaxScore (a scaled float)
MaxTopK == 1         \* detail_top_k ranges over None and 0..MaxTopK
MaxFilterTopK == 2   \* filter_top_k ranges over 1..MaxFilterTopK
ChunkLen == 2        \* characters per chunk (stands for chunk_size = 1024)

-----------------------------------------------------------------------------
(* Optional values and strings *)

None == <<>>
Some(x) == <<x>>

\* Python truthiness of an Optional[str]: neither None nor "".
Truthy(o) == o # None /\ o[1] # ""

\* str.replace(old, new): every non-overlapping occurrence, left to right.
RECURSIVE Replace(_, _, _)
Replace(s, old, new) ==
    IF Len(s) < Len(old) THEN s
    ELSE IF SubSeq(s, 1, Len(old)) = old
         THEN new \o Replace(SubSeq(s, Len(old) + 1, Len(s)), old, new)
         ELSE SubSeq(s, 1, 1) \o Replace(SubSeq(s, 2, Len(s)), old, new)

\* The longest run of "\n" at the head of s.
RECURSIVE NewlineRun(_)
NewlineRun(s) ==
    IF Len(s) > 0 /\ SubSeq(s, 1, 1) = "\n"
    THEN 1 + NewlineRun(SubSeq(s, 2, Len(s)))
    ELSE 0

\* re.sub(r'\n{2,}', '\n', s)
RECURSIVE CollapseNewlines(_)
CollapseNewlines(s) ==
    IF Len(s) = 0 THEN s
    ELSE LET n == NewlineRun(s) IN
         IF n >= 2 THEN "\n" \o CollapseNewlines(SubSeq(s, n + 1, Len(s)))
         ELSE SubSeq(s, 1, 1) \o CollapseNewlines(SubSeq(s, 2, Len(s)))

\* dict[key] = value
SetKey(d, k, v) == (k :> v) @@ d

-----------------------------------------------------------------------------
(* The data the collaborators produce *)

Links == {"u1", "u2"}
Scores == 0 .. MaxScore

\* The snippet the provider reports for a page.
SnippetOf(l) == IF l = "u1" THEN "s" ELSE "snip"

\* utils.hash.md5 of a link: an injective digest.
md5(l) == "md5:" \o l

\* A result as the search provider returns it; the uuid key is optional.
ProviderResult(l, sc, hasUuid) ==
    LET r == [title |-> "t:" \o l, link |-> l, snippet |-> SnippetOf(l), score |-> sc]
    IN  IF hasUuid THEN SetKey(r, "uuid", "id:" \o l) ELSE r

ResultUniverse ==
    {ProviderResult(l, sc, h) : l \in Links, sc \in Scores, h \in BOOLEAN}

\* get_search_results: the lists the provider may return, or the error it raises.
ProviderLists == UNION {[1 .. n -> ResultUniverse] : n \in 0 .. MaxResults}
ProviderErrors == {"quota exceeded", "timeout"}

-----------------------------------------------------------------------------
(* Requests *)

Secrets == {None, Some(""), Some("k1")}
Headers == {None, Some(""), Some("k1"), Some("Bearer k1"), Some("Bearer k2"),
            Some("Bearer Bearer k1")}
Queries == {"", "q"}
Locales == {"", "en"}

RagSearchReq ==
    [query : Queries, locale : Locales, search_n : {10},
     search_provider : {"google"},
     is_reranking : BOOLEAN, is_detail : BOOLEAN, is_filter : BOOLEAN,
     detail_top_k : {None} \cup {Some(k) : k \in 0 .. MaxTopK},
     detail_min_score : {None} \cup {Some(m) : m \in Scores},
     filter_min_score : {Some(0)},
     filter_top_k : {Some(k) : k \in 1 .. MaxFilterTopK}]

NoResp == [kind |-> "none"]
resp_err(msg) == [kind |-> "err", msg |-> msg]
resp_data(list) == [kind |-> "data", search_results |-> list]

\* A request without optional stage.
Plain(r) == ~r.is_reranking /\ ~r.is_detail /\ ~r.is_filter

\* No second request is in flight.
IdlePeer == [pc |-> "idle"]

\* Requests without optional stage come with every secret, header and locale;
\* requests with optional stages come to a server whose secret is "k1", with
\* the matching header or none, and the default locale.
Init ==
    /\ \/ /\ authApiKey \in Secrets
          /\ authorization \in Headers
          /\ req \in {r \in RagSearchReq : Plain(r)}
       \/ /\ authApiKey = Some("k1")
          /\ authorization \in {None, Some("Bearer k1")}
          /\ req \in {r \in RagSearchReq : ~Plain(r) /\ r.locale = ""}
    /\ pc = "auth"
    /\ search_results = <<>>
    /\ resp = NoResp
    /\ params = None
    /\ urls = <<>>
    /\ tasks = <<>>
    /\ store = <<>>
    /\ indexed = <<>>
    /\ match_results = <<>>
    /\ calls = <<>>
    /\ raw = None
    /\ stageIn = <<>>
    /\ trace = <<>>
    /\ peer = IdlePeer

-----------------------------------------------------------------------------
(* rag_search: authentication and validation *)

\* The key rag_search extracts from the header (lines 63-67).
ApiKey(hdr) == IF Truthy(hdr) THEN Replace(hdr[1], "Bearer ", "") ELSE ""

\* apiKey != authApiKey (line 69); a str never equals None.
KeyMismatch(apiKey, secret) == secret = None \/ secret[1] # apiKey

Authenticate ==
    /\ pc = "auth"
    /\ IF KeyMismatch(ApiKey(authorization), authApiKey)
       THEN /\ resp' = resp_err("Access Denied")
            /\ pc' = "done"
       ELSE /\ resp' = resp
            /\ pc' = "validate"
    /\ UNCHANGED <<authApiKey, authorization, req, search_results, params, urls,
                   tasks, store, indexed, match_results, calls, raw, stageIn, trace,
                   peer>>

\* The check of line 74 written as a test for a missing query (`is None`),
\* which no str satisfies.
EmptyQueryIsNone(q) == FALSE

\* rag_search line 74.
EmptyQuery(q) == q = ""

Validate ==
    /\ pc = "validate"
    /\ IF EmptyQuery(req.query)
       THEN /\ resp' = resp_err("invalid params")
            /\ pc' = "done"
       ELSE /\ resp' = resp
            /\ pc' = "search"
    /\ UNCHANGED <<authApiKey, authorization, req, search_results, params, urls,
                   tasks, store, indexed, match_results, calls, raw, stageIn, trace,
                   peer>>

-----------------------------------------------------------------------------
(* Retriever *)

\* search(): the parameter dict handed to get_search_results (lines 134-142).
SearchParams(query, num, locale) ==
    LET p == [q |-> query, num |-> num]
    IN  IF locale # "" THEN SetKey(p, "hl", locale) ELSE p

\* get_search_results: the provider returns a list or raises an error.
ProviderOutcomes ==
    {[raised |-> FALSE, value |-> l] : l \in ProviderLists}
        \cup {[raised |-> TRUE, value |-> e] : e \in ProviderErrors}

\* search() with the error logged and an empty list returned in its place.
searchSwallow(outcome) ==
    IF outcome.raised
    THEN [raised |-> FALSE, value |-> <<>>]
    ELSE [raised |-> FALSE, value |-> outcome.value]

\* search() lines 144-154: the provider's list is returned, the provider's
\* error is logged and raised again.
search(outcome) ==
    IF outcome.raised
    THEN [raised |-> TRUE, value |-> outcome.value]
    ELSE [raised |-> FALSE, value |-> outcome.value]

\* rag_search lines 78-87.
Search ==
    /\ pc = "search"
    /\ calls' = Append(calls, "search")
    /\ params' = Some(SearchParams(req.query, req.search_n, req.locale))
    /\ \E outcome \in ProviderOutcomes :
         LET got == search(outcome)
         IN  /\ raw' = Some(outcome)
             /\ IF got.raised
                THEN /\ resp' = resp_err("get search results failed: " \o got.value)
                     /\ pc' = "done"
                     /\ UNCHANGED search_results
                ELSE /\ search_results' = got.value
                     /\ resp' = resp
                     /\ pc' = "rerank"
    /\ UNCHANGED <<authApiKey, authorization, req, urls, tasks, store, indexed,
                   match_results, stageIn, trace,
                   peer>>

-----------------------------------------------------------------------------
(* Reranker *)

\* Insert r into a list sorted by descending score, after its equals.
RECURSIVE InsertDesc(_, _)
InsertDesc(list, r) ==
    IF list = <<>> THEN <<r>>
    ELSE IF Head(list).score >= r.score
         THEN <<Head(list)>> \o InsertDesc(Tail(list), r)
         ELSE <<r>> \o list

RECURSIVE SortDesc(_)
SortDesc(list) ==
    IF list = <<>> THEN <<>>
    ELSE InsertDesc(SortDesc(SubSeq(list, 1, Len(list) - 1)), list[Len(list)])

\* services.rerank.rerank: a new score for every item, the list reordered
\* descending by the new score.
Reranked(list, newScore) ==
    SortDesc([i \in 1 .. Len(list) |-> [list[i] EXCEPT !.score = newScore[i]]])

StageRecord(stage, input, output, failed) ==
    [stage |-> stage, input |-> input, output |-> output, failed |-> failed]

\* The reranker run whatever the flag says.
RerankAlways(r) == TRUE

\* The flags of the optional stages (rag_search lines 90, 99 and 108).
RerankEnabled(r) == r.is_reranking
DetailEnabled(r) == r.is_detail

\* The filter run whatever the flag says.
FilterAlways(r) == TRUE

\* rag_search line 108.
FilterEnabled(r) == r.is_filter

\* rag_search lines 89-96: a rerank that raises is logged and the list kept.
Rerank ==
    /\ pc = "rerank"
    /\ pc' = "detail"
    /\ IF RerankEnabled(req)
       THEN /\ calls' = Append(calls, "rerank")
            /\ \/ \E newScore \in [1 .. Len(search_results) -> Scores] :
                    /\ search_results' = Reranked(search_results, newScore)
                    /\ trace' = Append(trace, StageRecord("rerank", search_results,
                                           search_results', FALSE))
               \/ /\ search_results' = search_results
                  /\ trace' = Append(trace, StageRecord("rerank", search_results,
                                         search_results, TRUE))
       ELSE UNCHANGED <<calls, search_results, trace>>
    /\ UNCHANGED <<authApiKey, authorization, req, resp, params, urls, tasks,
                   store, indexed, match_results, raw, stageIn,
                   peer>>

-----------------------------------------------------------------------------
(* ContentFetcher: fetch_details and services/web.py *)

\* The selection loop with the cap tested one element late.
RECURSIVE SelectUrlsLateCap(_, _, _, _, _)
SelectUrlsLateCap(list, i, acc, min_score, top_k) ==
    IF i > Len(list) THEN [raised |-> FALSE, urls |-> acc]
    ELSE IF top_k = None THEN [raised |-> TRUE, urls |-> acc]
    ELSE IF Len(acc) > top_k[1] + 1 THEN [raised |-> FALSE, urls |-> acc]
    ELSE IF min_score = None THEN [raised |-> TRUE, urls |-> acc]
    ELSE IF list[i].score >= min_score[1]
         THEN SelectUrlsLateCap(list, i + 1, Append(acc, list[i].link), min_score, top_k)
         ELSE SelectUrlsLateCap(list, i + 1, acc, min_score, top_k)

\* The selection loop without the score threshold.
RECURSIVE SelectUrlsNoThreshold(_, _, _, _, _)
SelectUrlsNoThreshold(list, i, acc, min_score, top_k) ==
    IF i > Len(list) THEN [raised |-> FALSE, urls |-> acc]
    ELSE IF top_k = None THEN [raised |-> TRUE, urls |-> acc]
    ELSE IF Len(acc) > top_k[1] THEN [raised |-> FALSE, urls |-> acc]
    ELSE IF min_score = None THEN [raised |-> TRUE, urls |-> acc]
    ELSE SelectUrlsNoThreshold(list, i + 1, Append(acc, list[i].link), min_score, top_k)

\* The selection loop of fetch_details (lines 166-175) from position i on.
\* Comparing with None raises TypeError; the loop body is not entered for an
\* empty list.
RECURSIVE SelectUrls(_, _, _, _, _)
SelectUrls(list, i, acc, min_score, top_k) ==
    IF i > Len(list) THEN [raised |-> FALSE, urls |-> acc]
    ELSE IF top_k = None THEN [raised |-> TRUE, urls |-> acc]
    ELSE IF Len(acc) > top_k[1] THEN [raised |-> FALSE, urls |-> acc]
    ELSE IF min_score = None THEN [raised |-> TRUE, urls |-> acc]
    ELSE IF list[i].score >= min_score[1]
         THEN SelectUrls(list, i + 1, Append(acc, list[i].link), min_score, top_k)
         ELSE SelectUrls(list, i + 1, acc, min_score, top_k)

\* The pages of the web: the body a successful GET of a URL returns.
Htmls == {"<p>ab</p>", "<p>a</p><p>b</p>"}

\* html2text.HTML2Text().handle with links and images ignored: each paragraph
\* is followed by a blank line, and the empty document renders as one.
handle(html) ==
    CASE html = "" -> "\n\n"
      [] html = "<p>ab</p>" -> "ab\n\n"
      [] html = "<p>a</p><p>b</p>" -> "a\n\nb\n\n"

\* html_to_markdown (lines 32-51): "" when the conversion raises.
html_to_markdown(html, convOk) == IF convOk THEN handle(html) ELSE ""

\* fetch_markdown after fetch_url returned html (lines 60-66).
Markdown(html, convOk) == CollapseNewlines(html_to_markdown(html, convOk))

\* rag_search lines 98-105 and fetch_details lines 165-179 up to the gather of
\* batch_fetch_urls: one task per URL, each suspended in session.get.
FetchDetails ==
    /\ pc = "detail"
    /\ IF DetailEnabled(req)
       THEN LET sel == SelectUrls(search_results, 1, <<>>, req.detail_min_score,
                                  req.detail_top_k)
            IN  /\ calls' = Append(calls, "fetch_details")
                /\ stageIn' = search_results
                /\ IF sel.raised
                   THEN /\ pc' = "filter"
                        /\ trace' = Append(trace, StageRecord("fetch_details",
                                               search_results, search_results, TRUE))
                        /\ UNCHANGED <<urls, tasks>>
                   ELSE /\ pc' = "gather"
                        /\ urls' = sel.urls
                        /\ tasks' = [i \in 1 .. Len(sel.urls) |->
                                       [url |-> sel.urls[i], pc |-> "get", markdown |-> ""]]
                        /\ trace' = trace
       ELSE /\ pc' = "filter"
            /\ UNCHANGED <<calls, stageIn, urls, tasks, trace>>
    /\ UNCHANGED <<authApiKey, authorization, req, search_results, resp, params,
                   store, indexed, match_results, raw,
                   peer>>

\* fetch_url lines 14-17 for task i: the GET completes.  A transport error
\* raises out of session.get into fetch_markdown's handler (lines 67-71); a
\* non-success status raises inside fetch_url's try, which returns "" (lines
\* 25-29) for fetch_markdown to convert.
TaskResponse(i) ==
    /\ pc = "gather"
    /\ tasks[i].pc = "get"
    /\ \E outcome \in {"ok", "status", "transport"} :
         tasks' = [tasks EXCEPT ![i] =
                     CASE outcome = "ok" -> [@ EXCEPT !.pc = "text"]
                       [] outcome = "status" ->
                            [@ EXCEPT !.pc = "failed", !.markdown = Markdown("", TRUE)]
                       [] outcome = "transport" ->
                            [@ EXCEPT !.pc = "failed", !.markdown = ""]]
    /\ UNCHANGED <<authApiKey, authorization, req, pc, search_results, resp, params,
                   urls, store, indexed, match_results, calls, raw, stageIn, trace,
                   peer>>

\* fetch_url lines 19-24 and fetch_markdown lines 60-66 for task i: the body
\* arrives and is converted.
TaskBody(i) ==
    /\ pc = "gather"
    /\ tasks[i].pc = "text"
    /\ \/ \E html \in Htmls, convOk \in BOOLEAN :
            tasks' = [tasks EXCEPT ![i] =
                        [@ EXCEPT !.pc = IF convOk THEN "done" ELSE "failed",
                                  !.markdown = Markdown(html, convOk)]]
       \/ \* response.text() raises: fetch_url returns "" (lines 25-29)
          tasks' = [tasks EXCEPT ![i] =
                      [@ EXCEPT !.pc = "failed", !.markdown = Markdown("", TRUE)]]
    /\ UNCHANGED <<authApiKey, authorization, req, pc, search_results, resp, params,
                   urls, store, indexed, match_results, calls, raw, stageIn, trace,
                   peer>>

\* A gather that gives up on a fetch that never completes.
TaskFinishedOrHung(t) == t.pc \in {"done", "failed", "hung"}

\* A task counted as finished only when its fetch succeeded.
TaskFinishedDoneOnly(t) == t.pc = "done"

\* A task has finished when fetch_markdown returned its pair.
TaskFinished(t) == t.pc \in {"done", "failed"}

\* asyncio.gather (line 84): the results of all tasks, in task order.
Gathered(ts) == [i \in 1 .. Len(ts) |-> <<ts[i].url, ts[i].markdown>>]

\* fetch_details lines 187-191: the url -> content dict; a later pair wins.
RECURSIVE ContentMap(_, _)
ContentMap(details, acc) ==
    IF details = <<>> THEN acc
    ELSE ContentMap(Tail(details), SetKey(acc, Head(details)[1], Head(details)[2]))

\* A merge that writes the fetched text over the snippet.
MergeDetailsIntoSnippet(list, content_maps) ==
    [i \in 1 .. Len(list) |->
        IF list[i].link \in DOMAIN content_maps
        THEN SetKey(list[i], "snippet", content_maps[list[i].link])
        ELSE list[i]]

\* fetch_details lines 194-198.
MergeDetails(list, content_maps) ==
    [i \in 1 .. Len(list) |->
        IF list[i].link \in DOMAIN content_maps
        THEN SetKey(list[i], "content", content_maps[list[i].link])
        ELSE list[i]]

\* A wait that returns with the first finished task.
GatherFirstCompleted(ts) == \E i \in 1 .. Len(ts) : TaskFinished(ts[i])

\* The gather is complete when every task has finished.
GatherReady(ts) == \A i \in 1 .. Len(ts) : TaskFinished(ts[i])

\* batch_fetch_urls lines 84-87 and fetch_details lines 186-201.  Every
\* exception of a fetch is caught inside its own coroutine, so the gather never
\* raises and the ClientResponseError handler of lines 88-92 is never entered.
FetchMerge ==
    /\ pc = "gather"
    /\ GatherReady(tasks)
    /\ search_results' = MergeDetails(search_results, ContentMap(Gathered(tasks), <<>>))
    /\ trace' = Append(trace, StageRecord("fetch_details", search_results,
                           search_results', FALSE))
    /\ pc' = "filter"
    /\ UNCHANGED <<authApiKey, authorization, req, resp, params, urls, tasks,
                   store, indexed, match_results, calls, raw, stageIn,
                   peer>>

-----------------------------------------------------------------------------
(* SemanticFilter: filter_content and services/document/store.py *)

\* The test of line 218 with >= for >.
EnrichedOrEqual(r) == "content" \in DOMAIN r /\ Len(r.content) >= Len(r.snippet)

\* filter_content line 218 (and build_document line 64).
Enriched(r) == "content" \in DOMAIN r /\ Len(r.content) > Len(r.snippet)

\* filter_content lines 214-220.
ResultsWithContent(list) == SelectSeq(list, Enriched)

NoDocument == [text |-> "", metadata |-> <<>>, doc_id |-> ""]

\* build_document (store.py lines 46-82).
build_document(result) ==
    IF result.link = "" \/ result.snippet = "" THEN NoDocument
    ELSE LET uuid == IF "uuid" \in DOMAIN result THEN result.uuid ELSE md5(result.link)
             text == IF Enriched(result) THEN result.content ELSE result.snippet
         IN  [text |-> text,
              metadata |-> [uuid |-> uuid, title |-> result.title,
                            snippet |-> result.snippet, link |-> result.link],
              doc_id |-> uuid]

\* The text of a document cut into chunks of ChunkLen characters.
RECURSIVE Split(_)
Split(text) ==
    IF Len(text) <= ChunkLen THEN <<text>>
    ELSE <<SubSeq(text, 1, ChunkLen)>> \o Split(SubSeq(text, ChunkLen + 1, Len(text)))

\* The nodes of one document: each chunk carries the document's uuid.
NodesOf(doc) ==
    LET parts == Split(doc.text)
    IN  [i \in 1 .. Len(parts) |-> [uuid |-> doc.metadata.uuid, content |-> parts[i]]]

RECURSIVE Flatten(_)
Flatten(seqs) == IF seqs = <<>> THEN <<>> ELSE Head(seqs) \o Flatten(Tail(seqs))

\* build_nodes (store.py lines 85-97).
build_nodes(documents) == Flatten([i \in 1 .. Len(documents) |-> NodesOf(documents[i])])

\* store_results lines 16-28: the documents of the results; the node parser
\* raises on a missing document.
Documents(results) == [i \in 1 .. Len(results) |-> build_document(results[i])]
DocumentsOk(documents) == \A i \in 1 .. Len(documents) : documents[i] # NoDocument

\* query_results: at most top_k chunks of the store, in retrieval order, each
\* with the uuid of its document and its text.
Matches(st, top_k) ==
    UNION {{[i \in 1 .. n |-> st[idx[i]]] :
              idx \in {f \in [1 .. n -> DOMAIN st] :
                         \A a, b \in 1 .. n : a # b => f[a] # f[b]}} :
           n \in {m \in 0 .. top_k : m <= Len(st)}}

\* filter_content lines 234-243: the uuid -> content dict of the matches.
RECURSIVE UuidContentMap(_, _)
UuidContentMap(matches, acc) ==
    IF matches = <<>> THEN acc
    ELSE LET m == Head(matches)
         IN  UuidContentMap(Tail(matches),
                 IF m.uuid \notin DOMAIN acc
                 THEN SetKey(acc, m.uuid, "")
                 ELSE SetKey(acc, m.uuid, acc[m.uuid] \o m.content))

\* The merge loop of a filter that keeps only the matched results.
MergeMatchesDropUnmatched(list, i, content_maps) ==
    [raised |-> \E k \in DOMAIN list : "uuid" \notin DOMAIN list[k],
     list |-> SelectSeq(
         [k \in DOMAIN list |->
             IF "uuid" \in DOMAIN list[k] /\ list[k].uuid \in DOMAIN content_maps
             THEN SetKey(list[k], "content", content_maps[list[k].uuid])
             ELSE list[k]],
         LAMBDA r : "uuid" \in DOMAIN r /\ r.uuid \in DOMAIN content_maps)]

\* filter_content lines 246-250 from position i on: the dicts are updated in
\* place, and result["uuid"] raises KeyError on a result without that key.
RECURSIVE MergeMatches(_, _, _)
MergeMatches(list, i, content_maps) ==
    IF i > Len(list) THEN [raised |-> FALSE, list |-> list]
    ELSE IF "uuid" \notin DOMAIN list[i] THEN [raised |-> TRUE, list |-> list]
    ELSE IF list[i].uuid \in DOMAIN content_maps
         THEN MergeMatches([list EXCEPT ![i] =
                               SetKey(@, "content", content_maps[list[i].uuid])],
                           i + 1, content_maps)
         ELSE MergeMatches(list, i + 1, content_maps)

\* rag_search lines 107-114 with filter_content and store_results.  The
\* similarity store and the query service may raise; an exception leaves
\* rag_search's list variable bound to the same (possibly updated) dicts.
FilterContent ==
    /\ pc = "filter"
    /\ pc' = "respond"
    /\ IF FilterEnabled(req)
       THEN LET results_with_content == ResultsWithContent(search_results)
                documents == Documents(results_with_content)
                nodes == build_nodes(documents)
            IN  /\ calls' = Append(calls, "filter_content")
                /\ stageIn' = search_results
                /\ indexed' = results_with_content
                /\ \/ \* store_results raises
                      /\ UNCHANGED <<store, match_results, search_results>>
                      /\ trace' = Append(trace, StageRecord("filter_content",
                                             search_results, search_results, TRUE))
                   \/ \* store_results returns, query_results raises
                      /\ DocumentsOk(documents)
                      /\ store' = store \o nodes
                      /\ UNCHANGED <<match_results, search_results>>
                      /\ trace' = Append(trace, StageRecord("filter_content",
                                             search_results, search_results, TRUE))
                   \/ \* both return: the merge loop runs
                      /\ DocumentsOk(documents)
                      /\ store' = store \o nodes
                      /\ \E ms \in Matches(store', req.filter_top_k[1]) :
                           LET merged == MergeMatches(search_results, 1,
                                                      UuidContentMap(ms, <<>>))
                           IN  /\ match_results' = ms
                               /\ search_results' = merged.list
                               /\ trace' = Append(trace,
                                      StageRecord("filter_content", search_results,
                                                  merged.list, merged.raised))
       ELSE UNCHANGED <<calls, stageIn, indexed, store, match_results,
                        search_results, trace>>
    /\ UNCHANGED <<authApiKey, authorization, req, resp, params, urls, tasks, raw,
                   peer>>

\* rag_search lines 116-119.  Each stage is wrapped in its own handler, so
\* nothing reaches the outer handler of lines 120-122.
Respond ==
    /\ pc = "respond"
    /\ resp' = resp_data(search_results)
    /\ pc' = "done"
    /\ UNCHANGED <<authApiKey, authorization, req, search_results, params, urls,
                   tasks, store, indexed, match_results, calls, raw, stageIn, trace,
                   peer>>

Next ==
    \/ Authenticate
    \/ Validate
    \/ Search
    \/ Rerank
    \/ FetchDetails
    \/ \E i \in 1 .. Len(tasks) : TaskResponse(i)
    \/ \E i \in 1 .. Len(tasks) : TaskBody(i)
    \/ FetchMerge
    \/ FilterContent
    \/ Respond

Spec == Init /\ [][Next]_vars

\* The event loop runs every coroutine that can take a step, and every call
\* to a collaborator returns or raises.
FairSpec == Spec /\ WF_vars(Next)

-----------------------------------------------------------------------------
(* Two requests in flight: the handler coroutine of a second request runs  *)
(* on the same event loop and shares the similarity store.                 *)

\* The variables of the first request.
handler == <<authApiKey, authorization, req, pc, search_results, resp, params,
             urls, tasks, indexed, match_results, calls, raw, stageIn, trace>>

\* The body of the second request: every optional stage flagged.
PeerReq ==
    [query |-> "q", locale |-> "", search_n |-> 10, search_provider |-> "google",
     is_reranking |-> TRUE, is_detail |-> TRUE, is_filter |-> TRUE,
     detail_top_k |-> Some(0), detail_min_score |-> Some(0),
     filter_min_score |-> Some(0), filter_top_k |-> Some(1)]

\* The second request as it arrives (rag_search lines 46-61).
NewPeer ==
    [pc |-> "auth", authorization |-> Some("Bearer k1"), req |-> PeerReq,
     search_results |-> <<>>, resp |-> NoResp, tasks |-> <<>>, calls |-> <<>>]

\* What the provider answers to the second request: an error, or one result
\* with a uuid.
PeerProviderOutcomes ==
    {o \in ProviderOutcomes :
        o.raised \/ (Len(o.value) = 1 /\ "uuid" \in DOMAIN o.value[1])}

\* rag_search lines 60-71 for the second request.
PeerAuthenticate ==
    /\ peer.pc = "auth"
    /\ peer' = IF KeyMismatch(ApiKey(peer.authorization), authApiKey)
               THEN [peer EXCEPT !.resp = resp_err("Access Denied"), !.pc = "done"]
               ELSE [peer EXCEPT !.pc = "validate"]
    /\ UNCHANGED <<handler, store>>

\* rag_search lines 73-76 for the second request.
PeerValidate ==
    /\ peer.pc = "validate"
    /\ peer' = IF EmptyQuery(peer.req.query)
               THEN [peer EXCEPT !.resp = resp_err("invalid params"), !.pc = "done"]
               ELSE [peer EXCEPT !.pc = "search"]
    /\ UNCHANGED <<handler, store>>

\* rag_search lines 78-87 for the second request.
PeerSearch ==
    /\ peer.pc = "search"
    /\ \E outcome \in PeerProviderOutcomes :
         LET got == search(outcome)
         IN  peer' = IF got.raised
                     THEN [peer EXCEPT
                             !.calls = Append(@, "search"),
                             !.resp = resp_err("get search results failed: "
                                                 \o got.value),
                             !.pc = "done"]
                     ELSE [peer EXCEPT !.calls = Append(@, "search"),
                                       !.search_results = got.value,
                                       !.pc = "rerank"]
    /\ UNCHANGED <<handler, store>>

\* rag_search lines 89-96 for the second request.
PeerRerank ==
    /\ peer.pc = "rerank"
    /\ IF RerankEnabled(peer.req)
       THEN \/ \E newScore \in [1 .. Len(peer.search_results) -> Scores] :
                 peer' = [peer EXCEPT
                            !.calls = Append(@, "rerank"),
                            !.search_results = Reranked(peer.search_results, newScore),
                            !.pc = "detail"]
            \/ peer' = [peer EXCEPT !.calls = Append(@, "rerank"), !.pc = "detail"]
       ELSE peer' = [peer EXCEPT !.pc = "detail"]
    /\ UNCHANGED <<handler, store>>

\* rag_search lines 98-105 and fetch_details lines 165-179 for the second
\* request.
PeerFetchDetails ==
    /\ peer.pc = "detail"
    /\ IF DetailEnabled(peer.req)
       THEN LET sel == SelectUrls(peer.search_results, 1, <<>>,
                                  peer.req.detail_min_score, peer.req.detail_top_k)
            IN  peer' = IF sel.raised
                        THEN [peer EXCEPT !.calls = Append(@, "fetch_details"),
                                          !.pc = "filter"]
                        ELSE [peer EXCEPT
                                !.calls = Append(@, "fetch_details"),
                                !.tasks = [i \in 1 .. Len(sel.urls) |->
                                             [url |-> sel.urls[i], pc |-> "get",
                                              markdown |-> ""]],
                                !.pc = "gather"]
       ELSE peer' = [peer EXCEPT !.pc = "filter"]
    /\ UNCHANGED <<handler, store>>

\* fetch_url lines 14-17 for task i of the second request.
PeerTaskResponse(i) ==
    /\ peer.pc = "gather"
    /\ peer.tasks[i].pc = "get"
    /\ \E outcome \in {"ok", "status", "transport"} :
         peer' = [peer EXCEPT !.tasks[i] =
                     CASE outcome = "ok" -> [@ EXCEPT !.pc = "text"]
                       [] outcome = "status" ->
                            [@ EXCEPT !.pc = "failed", !.markdown = Markdown("", TRUE)]
                       [] outcome = "transport" ->
                            [@ EXCEPT !.pc = "failed", !.markdown = ""]]
    /\ UNCHANGED <<handler, store>>

\* fetch_url lines 19-24 and fetch_markdown lines 60-66 for task i of the
\* second request.
PeerTaskBody(i) ==
    /\ peer.pc = "gather"
    /\ peer.tasks[i].pc = "text"
    /\ \/ \E html \in Htmls, convOk \in BOOLEAN :
            peer' = [peer EXCEPT !.tasks[i] =
                        [@ EXCEPT !.pc = IF convOk THEN "done" ELSE "failed",
                                  !.markdown = Markdown(html, convOk)]]
       \/ peer' = [peer EXCEPT !.tasks[i] =
                      [@ EXCEPT !.pc = "failed", !.markdown = Markdown("", TRUE)]]
    /\ UNCHANGED <<handler, store>>

\* batch_fetch_urls lines 84-87 and fetch_details lines 186-201 for the
\* second request.
PeerFetchMerge ==
    /\ peer.pc = "gather"
    /\ GatherReady(peer.tasks)
    /\ peer' = [peer EXCEPT
                  !.search_results = MergeDetails(peer.search_results,
                                         ContentMap(Gathered(peer.tasks), <<>>)),
                  !.pc = "filter"]
    /\ UNCHANGED <<handler, store>>

\* rag_search lines 107-114 with filter_content and store_results for the
\* second request: its chunks go into the same store, and its query runs
\* over the whole store.
PeerFilterContent ==
    /\ peer.pc = "filter"
    /\ IF FilterEnabled(peer.req)
       THEN LET documents == Documents(ResultsWithContent(peer.search_results))
                nodes == build_nodes(documents)
                called == [peer EXCEPT !.calls = Append(@, "filter_content"),
                                       !.pc = "respond"]
            IN  \/ \* store_results raises
                   /\ peer' = called
                   /\ store' = store
                \/ \* store_results returns, query_results raises
                   /\ DocumentsOk(documents)
                   /\ peer' = called
                   /\ store' = store \o nodes
                \/ \* both return: the merge loop runs
                   /\ DocumentsOk(documents)
                   /\ store' = store \o nodes
                   /\ \E ms \in Matches(store', peer.req.filter_top_k[1]) :
                        peer' = [called EXCEPT !.search_results =
                                    MergeMatches(peer.search_results, 1,
                                                 UuidContentMap(ms, <<>>)).list]
       ELSE /\ peer' = [peer EXCEPT !.pc = "respond"]
            /\ store' = store
    /\ UNCHANGED handler

\* rag_search lines 116-119 for the second request.
PeerRespond ==
    /\ peer.pc = "respond"
    /\ peer' = [peer EXCEPT !.resp = resp_data(peer.search_results), !.pc = "done"]
    /\ UNCHANGED <<handler, store>>

\* session.get of task i never completes: the code sets no timeout on the
\* session (web.py line 80) or on the request, and nothing cancels the task.
TaskHang(i) ==
    /\ pc = "gather"
    /\ tasks[i].pc = "get"
    /\ tasks' = [tasks EXCEPT ![i].pc = "hung"]
    /\ UNCHANGED <<authApiKey, authorization, req, pc, search_results, resp, params,
                   urls, store, indexed, match_results, calls, raw, stageIn, trace,
                   peer>>

\* The first request asks for the fetch of one page and for the filter stage.
ServerReqs ==
    {r \in RagSearchReq :
        /\ r.query = "q" /\ r.locale = ""
        /\ ~r.is_reranking /\ r.is_detail /\ r.is_filter
        /\ r.detail_top_k = Some(0) /\ r.detail_min_score = Some(0)
        /\ r.filter_top_k = Some(MaxFilterTopK)}

InitServer ==
    /\ authApiKey = Some("k1")
    /\ authorization = Some("Bearer k1")
    /\ req \in ServerReqs
    /\ pc = "auth"
    /\ search_results = <<>>
    /\ resp = NoResp
    /\ params = None
    /\ urls = <<>>
    /\ tasks = <<>>
    /\ store = <<>>
    /\ indexed = <<>>
    /\ match_results = <<>>
    /\ calls = <<>>
    /\ raw = None
    /\ stageIn = <<>>
    /\ trace = <<>>
    /\ peer = NewPeer

NextServer ==
    \/ Authenticate
    \/ Validate
    \/ Search
    \/ Rerank
    \/ FetchDetails
    \/ \E i \in 1 .. Len(tasks) : TaskResponse(i)
    \/ \E i \in 1 .. Len(tasks) : TaskBody(i)
    \/ \E i \in 1 .. Len(tasks) : TaskHang(i)
    \/ FetchMerge
    \/ FilterContent
    \/ Respond
    \/ PeerAuthenticate
    \/ PeerValidate
    \/ PeerSearch
    \/ PeerRerank
    \/ PeerFetchDetails
    \/ \E i \in 1 .. Len(peer.tasks) : PeerTaskResponse(i)
    \/ \E i \in 1 .. Len(peer.tasks) : PeerTaskBody(i)
    \/ PeerFetchMerge
    \/ PeerFilterContent
    \/ PeerRespond

\* The event loop runs every coroutine that can take a step; a hung fetch
\* takes none.
SpecServer == InitServer /\ [][NextServer]_vars /\ WF_vars(NextServer)

-----------------------------------------------------------------------------
(* Properties *)

Responded == pc = "done"
AccessDenied == resp_err("Access Denied")
InvalidParams == resp_err("invalid params")

\* The token of an Authorization header: the value after the "Bearer " scheme.
BearerToken(hdr) ==
    IF Len(hdr) >= 7 /\ SubSeq(hdr, 1, 7) = "Bearer "
    THEN SubSeq(hdr, 8, Len(hdr))
    ELSE hdr

\* The header is absent or its bearer token is not the configured secret.
Unauthorized ==
    \/ authorization = None
    \/ authApiKey = None
    \/ BearerToken(authorization[1]) # authApiKey[1]

\* C1: a request whose Authorization header is absent, or whose bearer token
\* differs from the configured secret, gets the "Access Denied" error and no
\* stage is invoked, whatever the other fields and whatever the secret.
C1_UnauthorizedIsDenied ==
    (pc # "auth" /\ Unauthorized) => (resp = AccessDenied /\ calls = <<>>)

\* C2: a request that passes authentication and has query == "" gets the
\* "invalid params" error and no stage runs, whatever its other fields.
C2_EmptyQueryIsInvalid ==
    (pc \notin {"auth", "validate"} /\ resp # AccessDenied /\ req.query = "")
        => (Responded /\ resp = InvalidParams /\ calls = <<>>)

\* An authenticated request with an empty query, optional stages flagged and
\* no detail_top_k has been answered.
C2_Witness ==
    /\ Responded
    /\ resp = InvalidParams
    /\ req.query = ""
    /\ req.is_detail /\ req.is_filter
    /\ req.detail_top_k = None

\* The provider raised during this request.
ProviderRaised == raw # None /\ raw[1].raised

\* C3: if the Retriever raises, the request ends with the search-failed error
\* carrying the provider's error unmodified; no optional stage is invoked
\* even when flagged, the Retriever is called once, no list is returned.
C3_SearchFailureIsTerminal ==
    ProviderRaised =>
        /\ Responded
        /\ resp = resp_err("get search results failed: " \o raw[1].value)
        /\ calls = <<"search">>
        /\ search_results = <<>>
        /\ trace = <<>>

\* The provider raised on a request that flags all three optional stages.
C3_Witness ==
    /\ ProviderRaised
    /\ Responded
    /\ req.is_reranking /\ req.is_detail /\ req.is_filter

\* C5: with is_reranking, is_detail and is_filter all false, the list of the
\* success response is the list the Retriever returned (same results, order
\* and fields, no content added) and no optional stage is invoked.
C5_PlainRequestReturnsRawList ==
    (Responded /\ resp.kind = "data" /\ ~req.is_reranking /\ ~req.is_detail
        /\ ~req.is_filter)
        => /\ resp.search_results = raw[1].value
           /\ \A i \in DOMAIN resp.search_results :
                "content" \notin DOMAIN resp.search_results[i]
           /\ calls = <<"search">>

\* A request without optional stage has been answered with a list of two.
C5_Witness ==
    /\ Responded
    /\ resp.kind = "data"
    /\ ~req.is_reranking /\ ~req.is_detail /\ ~req.is_filter
    /\ Len(resp.search_results) = 2
    /\ resp.search_results[1].score < resp.search_results[2].score

\* The last finished optional stage.
LastStage == trace[Len(trace)]

\* C4: if an enabled optional stage fails at any point, the request still
\* returns a success response, the later enabled stages still run, and the
\* list passed forward is the stage's input list unmodified (same results,
\* same order, every field including content as before the stage started).
C4_FailedStagePassesInputUnmodified ==
    /\ \A i \in DOMAIN trace : trace[i].failed => trace[i].output = trace[i].input
    /\ (Responded /\ \E i \in DOMAIN trace : trace[i].failed) =>
          /\ resp.kind = "data"
          /\ req.is_detail => \E j \in DOMAIN calls : calls[j] = "fetch_details"
          /\ req.is_filter => \E j \in DOMAIN calls : calls[j] = "filter_content"

\* C6: every URL fetch_details hands to batch_fetch_urls is the link of a
\* result with score >= detail_min_score, the URLs are taken in list order,
\* and there are at most detail_top_k + 1 of them (detail_top_k >= 0).
C6_SelectedUrls ==
    (pc = "gather" /\ req.detail_top_k # None /\ req.detail_top_k[1] >= 0) =>
        /\ Len(urls) <= req.detail_top_k[1] + 1
        /\ Len(tasks) = Len(urls)
        /\ \A j \in DOMAIN urls : tasks[j].url = urls[j]
        /\ \E f \in [DOMAIN urls -> DOMAIN stageIn] :
             /\ \A a, b \in DOMAIN urls : a < b => f[a] < f[b]
             /\ \A j \in DOMAIN urls :
                  /\ urls[j] = stageIn[f[j]].link
                  /\ stageIn[f[j]].score >= req.detail_min_score[1]

\* The cap cut the selection: two results qualify, detail_top_k + 1 URLs are
\* fetched; and a result below the threshold was passed over.
C6_Witness ==
    /\ pc = "gather"
    /\ req.detail_top_k = Some(0)
    /\ req.detail_min_score = Some(1)
    /\ Len(stageIn) = 2
    /\ stageIn[1].score = 1 /\ stageIn[2].score = 1
    /\ Len(urls) = 1

\* The fetch stage has just merged its batch.
FetchMerged ==
    /\ pc = "filter"
    /\ trace # <<>>
    /\ LastStage.stage = "fetch_details"
    /\ ~LastStage.failed

\* The markdown of the last task of the batch that fetched url u.
LastMarkdown(u) ==
    tasks[CHOOSE j \in DOMAIN tasks :
            /\ tasks[j].url = u
            /\ \A k \in DOMAIN tasks : tasks[k].url = u => k <= j].markdown

\* C7: within one batch, if the fetch of URL A fails (status, transport or
\* conversion), the batch completes without raising, A's entry carries the
\* empty string, and every other URL B whose fetch succeeded has its content
\* attached to the results with link B.
C7_FailedFetchIsIsolated ==
    FetchMerged =>
        \A a \in DOMAIN tasks : tasks[a].pc = "failed" =>
            /\ tasks[a].markdown = ""
            /\ \A b \in DOMAIN tasks :
                 (/\ tasks[b].url # tasks[a].url
                  /\ \A k \in DOMAIN tasks :
                       tasks[k].url = tasks[b].url => tasks[k].pc = "done")
                 => \A r \in DOMAIN search_results :
                      search_results[r].link = tasks[b].url =>
                          /\ "content" \in DOMAIN search_results[r]
                          /\ search_results[r].content = LastMarkdown(tasks[b].url)

\* C8: the ContentFetcher stage is an all-complete barrier: while a fetch
\* task of the batch is unfinished fetch_details has written no content and
\* has not returned, so no later stage sees a partly merged batch.
C8_AllCompleteBarrier ==
    /\ pc = "gather" => search_results = stageIn
    /\ \A i \in DOMAIN trace :
         (trace[i].stage = "fetch_details" /\ ~trace[i].failed) =>
            /\ \A j \in DOMAIN tasks : tasks[j].pc \in {"done", "failed"}
            /\ \A k \in DOMAIN trace[i].output :
                 (\E j \in DOMAIN tasks : tasks[j].url = trace[i].output[k].link) =>
                     /\ "content" \in DOMAIN trace[i].output[k]
                     /\ trace[i].output[k].content =
                            LastMarkdown(trace[i].output[k].link)
    /\ pc \in {"filter", "respond", "done"} =>
         \A j \in DOMAIN tasks : tasks[j].pc \in {"done", "failed"}

\* One task of a batch of two has finished with content while the other is
\* still in flight.
C8_Witness ==
    /\ pc = "gather"
    /\ Len(tasks) = 2
    /\ tasks[2].pc = "done"
    /\ tasks[1].pc = "get"

\* C9: filter_content hands to store_results only results that have a
\* content field strictly longer than their snippet.
C9_OnlyEnrichedIndexed ==
    /\ \A i \in DOMAIN indexed :
         /\ "content" \in DOMAIN indexed[i]
         /\ Len(indexed[i].content) > Len(indexed[i].snippet)
    /\ store # <<>> => indexed # <<>>

\* The filter stage indexed a result and passed over one whose content is
\* exactly as long as its snippet.
C9_Witness ==
    /\ pc = "respond"
    /\ req.is_filter
    /\ indexed # <<>>
    /\ \E k \in DOMAIN stageIn :
         /\ "content" \in DOMAIN stageIn[k]
         /\ Len(stageIn[k].content) = Len(stageIn[k].snippet)
         /\ \A i \in DOMAIN indexed : indexed[i] # stageIn[k]

\* The texts of the matched fragments of uuid u, concatenated in retrieval
\* order.
RECURSIVE FragmentsOf(_, _)
FragmentsOf(matches, u) ==
    IF matches = <<>> THEN ""
    ELSE (IF Head(matches).uuid = u THEN Head(matches).content ELSE "")
            \o FragmentsOf(Tail(matches), u)

\* The filter stage has just finished without raising.
FilterSucceeded ==
    /\ pc = "respond"
    /\ trace # <<>>
    /\ LastStage.stage = "filter_content"
    /\ ~LastStage.failed

\* C10: after filter_content succeeds, for every uuid among the matches the
\* content of each result with that uuid is the concatenation, in retrieval
\* order, of the texts of all matched fragments of that uuid.
C10_ContentIsConcatenation ==
    FilterSucceeded =>
        \A m \in DOMAIN match_results : \A k \in DOMAIN search_results :
            ("uuid" \in DOMAIN search_results[k]
                /\ search_results[k].uuid = match_results[m].uuid)
            => search_results[k].content
                 = FragmentsOf(match_results, match_results[m].uuid)

\* The finished stages of the ContentFetcher and the SemanticFilter.
ContentStages ==
    {i \in DOMAIN trace : trace[i].stage \in {"fetch_details", "filter_content"}}

\* The uuids of the fragments query_results returned.
MatchedUuids == {match_results[m].uuid : m \in DOMAIN match_results}

\* C11: ContentFetcher and SemanticFilter never add, remove or reorder
\* results, and after SemanticFilter every result whose uuid has no matched
\* fragment has the content (or absence of content) it had before the stage.
C11_MembershipAndUnmatchedContent ==
    \A i \in ContentStages :
        /\ Len(trace[i].output) = Len(trace[i].input)
        /\ \A k \in DOMAIN trace[i].input :
             /\ trace[i].output[k].link = trace[i].input[k].link
             /\ trace[i].output[k].title = trace[i].input[k].title
        /\ trace[i].stage = "filter_content" =>
             \A k \in DOMAIN trace[i].input :
                 ("uuid" \notin DOMAIN trace[i].input[k]
                     \/ trace[i].input[k].uuid \notin MatchedUuids)
                 => trace[i].output[k] = trace[i].input[k]

\* The filter stage of a list of two succeeded with fragments matched for the
\* first result only; the second result has content.
C11_Witness ==
    /\ FilterSucceeded
    /\ Len(stageIn) = 2
    /\ stageIn[1].uuid \in MatchedUuids
    /\ stageIn[2].uuid \notin MatchedUuids
    /\ "content" \in DOMAIN stageIn[2]
    /\ search_results[1] # stageIn[1]

\* The positions of the selected results of a list: score >= min_score and
\* among the first top_k + 1 such results in list order.
SelectedResults(list, min_score, top_k) ==
    {i \in DOMAIN list :
        /\ list[i].score >= min_score
        /\ Cardinality({j \in 1 .. i - 1 : list[j].score >= min_score}) <= top_k}

\* Every fetch of the batch succeeded.
AllFetchesSucceeded == \A j \in DOMAIN tasks : tasks[j].pc = "done"

\* C12 as stated: after the ContentFetcher stage on a list without content
\* and with every fetch succeeding, a result has a content field if and only
\* if it was selected.
C12_ContentIffSelected ==
    (FetchMerged /\ AllFetchesSucceeded) =>
        \A k \in DOMAIN search_results :
            "content" \in DOMAIN search_results[k]
                <=> k \in SelectedResults(LastStage.input, req.detail_min_score[1],
                                          req.detail_top_k[1])

\* C12 amended: a result has a content field if and only if its link is the
\* link of a selected result.
C12_ContentIffLinkSelected ==
    (FetchMerged /\ AllFetchesSucceeded) =>
        \A k \in DOMAIN search_results :
            "content" \in DOMAIN search_results[k]
                <=> \E j \in SelectedResults(LastStage.input, req.detail_min_score[1],
                                             req.detail_top_k[1]) :
                        LastStage.input[j].link = search_results[k].link

\* Two results with different links qualify, detail_top_k + 1 = 1 of them is
\* selected and fetched: the first has content, the second has none.
C12_Witness ==
    /\ FetchMerged
    /\ AllFetchesSucceeded
    /\ req.detail_top_k = Some(0)
    /\ Len(search_results) = 2
    /\ search_results[1].link # search_results[2].link
    /\ search_results[2].score >= req.detail_min_score[1]
    /\ "content" \in DOMAIN search_results[1]
    /\ "content" \notin DOMAIN search_results[2]

\* C13: a result whose URL was selected but whose fetch failed is left as-is
\* by fetch_details: no content field before the stage means none after it,
\* and an existing content field keeps its value.
C13_FailedFetchLeavesResult ==
    FetchMerged =>
        \A k \in DOMAIN search_results :
            (/\ \E j \in DOMAIN tasks : tasks[j].url = search_results[k].link
             /\ \A j \in DOMAIN tasks :
                    tasks[j].url = search_results[k].link => tasks[j].pc = "failed")
            => search_results[k] = LastStage.input[k]

\* The pipeline order of the stages.
StageOrder == <<"search", "rerank", "fetch_details", "filter_content">>
StageRank(s) == CHOOSE i \in DOMAIN StageOrder : StageOrder[i] = s

\* The calls of the optional stages, in call order.
OptionalCalls == SelectSeq(calls, LAMBDA c : c # "search")

\* C14: the stages run strictly in the order Retriever, Reranker,
\* ContentFetcher, SemanticFilter, each starting after the previous one has
\* finished; an optional stage runs only if its flag is set; every stage is
\* invoked at most once per request, also after a failure.
C14_StagesInOrderAtMostOnce ==
    /\ \A i, j \in DOMAIN calls : i < j => StageRank(calls[i]) < StageRank(calls[j])
    /\ calls # <<>> => calls[1] = "search"
    /\ OptionalCalls # <<>> => raw # None /\ ~raw[1].raised
    /\ \A i \in DOMAIN calls :
          /\ calls[i] = "rerank" => req.is_reranking
          /\ calls[i] = "fetch_details" => req.is_detail
          /\ calls[i] = "filter_content" => req.is_filter
    /\ Len(trace) = Len(OptionalCalls) - (IF pc = "gather" THEN 1 ELSE 0)
    /\ pc = "gather" => calls[Len(calls)] = "fetch_details"
    /\ \A i \in DOMAIN trace : trace[i].stage = OptionalCalls[i]
    /\ \A i \in DOMAIN trace : i > 1 => trace[i].input = trace[i - 1].output

\* All four stages ran, one of them failed, and the request was answered.
C14_Witness ==
    /\ Responded
    /\ calls = StageOrder
    /\ \E i \in DOMAIN trace : trace[i].failed /\ i < Len(trace)

\* The filter stage has returned or raised.
FilterRan ==
    /\ pc = "respond"
    /\ trace # <<>>
    /\ LastStage.stage = "filter_content"

\* C15: an enriched result without an upstream uuid is indexed under the md5
\* of its link, and when query_results returns a fragment with that derived
\* uuid, filter_content replaces the result's content exactly as it does for
\* a result with an upstream uuid.
C15_DerivedUuidMerged ==
    FilterRan =>
        \A k \in DOMAIN stageIn :
            (/\ "uuid" \notin DOMAIN stageIn[k]
             /\ Enriched(stageIn[k])
             /\ md5(stageIn[k].link) \in MatchedUuids)
            => /\ \E n \in DOMAIN store : store[n].uuid = md5(stageIn[k].link)
               /\ search_results[k].content
                    = UuidContentMap(match_results, <<>>)[md5(stageIn[k].link)]

\* The fields of a result other than content.
FrameKeys(r) == DOMAIN r \ {"content"}

\* C16: fetch_details and filter_content write no field of a result other
\* than content: title, link, snippet, score and uuid are the same after the
\* stage as before it.
C16_OnlyContentWritten ==
    \A i \in ContentStages : \A k \in DOMAIN trace[i].input :
        /\ k \in DOMAIN trace[i].output
        /\ FrameKeys(trace[i].output[k]) = FrameKeys(trace[i].input[k])
        /\ \A f \in FrameKeys(trace[i].input[k]) :
               trace[i].output[k][f] = trace[i].input[k][f]

\* Both stages ran and each of them changed the content of a result that
\* carries a uuid.
C16_Witness ==
    /\ FilterSucceeded
    /\ Len(trace) >= 2
    /\ trace[Len(trace) - 1].stage = "fetch_details"
    /\ \E k \in DOMAIN stageIn :
         /\ "uuid" \in DOMAIN stageIn[k]
         /\ trace[Len(trace) - 1].output[k] # trace[Len(trace) - 1].input[k]
         /\ LastStage.output[k] # LastStage.input[k]

\* The responses of rag_search: the two request errors, the search failure,
\* the handler's catch-all error, and the success envelope.
ResponseShape ==
    \/ resp \in {AccessDenied, InvalidParams}
    \/ \E e \in ProviderErrors : resp = resp_err("get search results failed: " \o e)
    \/ /\ resp.kind = "err"
       /\ Len(resp.msg) >= 19
       /\ SubSeq(resp.msg, 1, 19) = "rag search failed: "
    \/ resp = resp_data(search_results)

\* C17: provided every collaborator call returns or raises, every request
\* eventually ends, with exactly one response: one of the error messages or
\* the success envelope; the handler never ends without a response and never
\* responds twice.
C17_EveryRequestAnsweredOnce ==
    /\ <>Responded
    /\ [](Responded <=> resp # NoResp)
    /\ [](Responded => ResponseShape)
    /\ [][resp # NoResp => resp' = resp /\ pc' = pc]_vars

\* A request answered with data although a fetch failed and the filter
\* stage raised.
C17_Witness ==
    /\ Responded
    /\ resp.kind = "data"
    /\ \E j \in DOMAIN tasks : tasks[j].pc = "failed"
    /\ trace # <<>>
    /\ LastStage.stage = "filter_content"
    /\ LastStage.failed

\* A fetch task of the first request never completes.
Hung == \E i \in DOMAIN tasks : tasks[i].pc = "hung"

PeerResponded == peer.pc = "done"

\* C18: a fetch task that never completes blocks only its own request, which
\* never responds (no timeout, no cancellation), while any other concurrent
\* request still runs all its stages and responds.
C18_HungFetchBlocksOnlyItsRequest ==
    /\ [](Hung => pc = "gather" /\ resp = NoResp)
    /\ [][Hung => Hung']_vars
    /\ Hung ~> PeerResponded
    /\ <>PeerResponded
    /\ [](PeerResponded =>
            \/ \E e \in ProviderErrors :
                 /\ peer.resp = resp_err("get search results failed: " \o e)
                 /\ peer.calls = <<"search">>
            \/ /\ peer.resp = resp_data(peer.search_results)
               /\ peer.calls = StageOrder)

\* The fetch of the first request never completes; the second request ran
\* its four stages, indexed a page and was answered.
C18_Witness ==
    /\ Hung
    /\ PeerResponded
    /\ peer.resp.kind = "data"
    /\ peer.calls = StageOrder
    /\ store # <<>>

\* The texts of the chunks this request's filter stage indexed under uuid u.
OwnFragments(u) ==
    LET nodes == build_nodes(Documents(indexed))
    IN  {nodes[n].content : n \in {m \in DOMAIN nodes : nodes[m].uuid = u}}

\* The concatenations of at most n texts of S.
RECURSIVE Compositions(_, _)
Compositions(S, n) ==
    IF n = 0 THEN {""}
    ELSE Compositions(S, n - 1)
            \cup {a \o b : a \in Compositions(S, n - 1), b \in S}

\* C19: requests are isolated through the shared similarity store: the
\* content filter_content writes to a result of a request is composed only of
\* fragments of content that this request itself indexed for the result's
\* uuid, and a result the request did not index is never given content by
\* its filter stage.
C19_ContentFromOwnIndex ==
    FilterRan =>
        \A k \in DOMAIN search_results :
            search_results[k] # stageIn[k] =>
                /\ \E n \in DOMAIN indexed : indexed[n] = stageIn[k]
                /\ search_results[k].content
                     \in Compositions(OwnFragments(search_results[k].uuid),
                                      req.filter_top_k[1])

====
